---- MODULE Spec2Model ----
(***************************************************************************)
(* Model of sql-inspector (src/src/lib.rs): the visitor V that collects    *)
(* columns, tables and table aliases from a parsed SQL syntax tree, and    *)
(* inspect(), which resolves the aliases, sorts and packages the result.   *)
(*                                                                         *)
(* A Rust String is a sequence of one-character strings, so that           *)
(* formatting, splitting on '.', and byte-wise ordering are computed, not  *)
(* assumed.  An Option<T> is a sequence of length 0 (None) or 1 (Some).    *)
(***************************************************************************)
EXTENDS Integers, Sequences, FiniteSets

VARIABLES
    sql,        \* the input of the call: a parse failure or the parsed statements
    pc,         \* position inside inspect(): start, visit, done, panicked
    todo,       \* callbacks statements.visit() has still to make, in pre-order
    visitor,    \* the struct V of this call
    result,     \* the value the call ended with
    calls,      \* number of calls of inspect() started on this input
    previous    \* the value the previous call on this input ended with

vars == <<sql, pc, todo, visitor, result, calls, previous>>

----------------------------------------------------------------------------
(* Strings *)

\* Byte value of the characters that occur in the model's strings.
Ord(c) ==
    CASE c = " " -> 32 [] c = "\"" -> 34 [] c = "*" -> 42 [] c = "." -> 46
      [] c = "A" -> 65 [] c = "I" -> 73 [] c = "J" -> 74 [] c = "N" -> 78
      [] c = "O" -> 79 [] c = "S" -> 83
      [] c = "a" -> 97 [] c = "c" -> 99 [] c = "d" -> 100 [] c = "s" -> 115
      [] c = "t" -> 116 [] c = "u" -> 117

RECURSIVE StrLess(_, _)
\* a < b in the order of Rust's String (lexicographic on bytes).
StrLess(a, b) ==
    IF b = <<>> THEN FALSE
    ELSE IF a = <<>> THEN TRUE
    ELSE IF Head(a) = Head(b) THEN StrLess(Tail(a), Tail(b))
    ELSE Ord(Head(a)) < Ord(Head(b))

StrLeq(a, b) == a = b \/ StrLess(a, b)

\* c.contains('.')
ContainsDot(c) == \E i \in 1..Len(c) : c[i] = "."

\* c.split('.').next().unwrap(): the text before the first '.'
SplitFirst(c) ==
    IF ContainsDot(c)
    THEN LET i == CHOOSE j \in 1..Len(c) :
                     c[j] = "." /\ \A k \in 1..(j - 1) : c[k] # "."
         IN  SubSeq(c, 1, i - 1)
    ELSE c

\* c.split('.').last().unwrap(): the text after the last '.'
SplitLast(c) ==
    IF ContainsDot(c)
    THEN LET i == CHOOSE j \in 1..Len(c) :
                     c[j] = "." /\ \A k \in (j + 1)..Len(c) : c[k] # "."
         IN  SubSeq(c, i + 1, Len(c))
    ELSE c

\* format!("{}.{}", a, b)
Dotted(a, b) == a \o <<".">> \o b

RECURSIVE Insert(_, _)
\* x put in its place in the ascending sequence s.
Insert(x, s) ==
    IF s = <<>> THEN <<x>>
    ELSE IF StrLeq(x, Head(s)) THEN <<x>> \o s
    ELSE <<Head(s)>> \o Insert(x, Tail(s))

RECURSIVE Sort(_)
\* Vec<String>::sort(): the ascending rearrangement of s, repeats kept.
Sort(s) == IF s = <<>> THEN <<>> ELSE Insert(Head(s), Sort(Tail(s)))

RECURSIVE IterationOrders(_)
\* The orders in which a HashSet's iterator can yield the elements of S.
IterationOrders(S) ==
    IF S = {} THEN {<<>>}
    ELSE UNION { { <<x>> \o rest : rest \in IterationOrders(S \ {x}) } : x \in S }

Range(s) == { s[i] : i \in 1..Len(s) }

----------------------------------------------------------------------------
(* The syntax tree (sqlparser::ast), as far as the visitor reads it *)

Ident(v) == [value |-> <<v>>, quote_style |-> <<>>]
Quoted(v) == [value |-> <<v>>, quote_style |-> <<"\"">>]

\* Ident's Display: the value between its quotes, when it has a quote style.
IdentToString(i) == i.quote_style \o i.value \o i.quote_style

RECURSIVE join(_)
\* fn join(arr: &[Ident]): the Display forms, separated by '.'
join(arr) ==
    IF arr = <<>> THEN <<>>
    ELSE IF Len(arr) = 1 THEN IdentToString(arr[1])
    ELSE join(SubSeq(arr, 1, Len(arr) - 1)) \o <<".">> \o IdentToString(arr[Len(arr)])

\* ObjectName's Display: its parts' Display forms, separated by '.'
ObjectNameToString(name) == join(name)

\* TableFactor::Table's Display: the name, then " AS alias" when there is one.
TableFactorToString(tf) ==
    ObjectNameToString(tf.name) \o
    (IF tf.alias = <<>> THEN <<>>
     ELSE <<" ", "A", "S", " ">> \o IdentToString(tf.alias[1]))

RECURSIVE JoinsToString(_)
\* Display of the joins of a TableWithJoins (inner joins without constraint).
JoinsToString(joins) ==
    IF joins = <<>> THEN <<>>
    ELSE <<" ", "J", "O", "I", "N", " ">> \o TableFactorToString(Head(joins).relation)
         \o JoinsToString(Tail(joins))

\* TableWithJoins's Display: the relation followed by its joins.
TableWithJoinsToString(t) == TableFactorToString(t.relation) \o JoinsToString(t.joins)

----------------------------------------------------------------------------
(* struct V and its Visitor implementation *)

\* V::default()
DefaultV ==
    [columns |-> {}, tables |-> {}, aliases |-> [k \in {} |-> <<>>],
     target_table |-> <<>>, query_type |-> "SELECT"]

\* HashMap::insert: a key bound again takes the new value.
MapInsert(m, k, val) == [x \in DOMAIN m \cup {k} |-> IF x = k THEN val ELSE m[x]]

\* The column a projection expression adds in pre_visit_statement (none for
\* an expression that is neither an identifier nor a compound identifier).
ProjectionExprColumns(expr) ==
    IF expr.e = "Identifier" THEN {expr.ident.value}
    ELSE IF expr.e = "CompoundIdentifier" THEN {join(expr.idents)}
    ELSE {}

\* The loop body without its wildcard arm.
SelectItemColumnsNoWildcard(item) ==
    IF item.item \in {"UnnamedExpr", "ExprWithAlias"} THEN ProjectionExprColumns(item.expr)
    ELSE {}

\* The loop body recording the alias of an aliased item as well.
SelectItemColumnsWithAlias(item) ==
    IF item.item = "UnnamedExpr" THEN ProjectionExprColumns(item.expr)
    ELSE IF item.item = "ExprWithAlias"
    THEN ProjectionExprColumns(item.expr) \cup {item.alias.value}
    ELSE IF item.item = "Wildcard" THEN {<<"*">>}
    ELSE {}

\* One pass of the loop over select.projection.
SelectItemColumns(item) ==
    IF item.item = "UnnamedExpr" THEN ProjectionExprColumns(item.expr)
    ELSE IF item.item = "ExprWithAlias" THEN ProjectionExprColumns(item.expr)
    ELSE IF item.item = "Wildcard" THEN {<<"*">>}
    ELSE {}

\* The Statement::Query arm.
VisitQuery(v, q) ==
    LET added == IF q.body.body = "Select"
                 THEN UNION { SelectItemColumns(q.body.select.projection[i]) :
                                  i \in 1..Len(q.body.select.projection) }
                 ELSE {}
    IN  [v EXCEPT !.query_type = "SELECT", !.columns = @ \cup added]

\* The Statement::Insert arm.
VisitInsert(v, i) ==
    LET table_name == ObjectNameToString(i.table_name)
    IN  [v EXCEPT !.query_type = "INSERT",
                  !.tables = @ \cup {table_name},
                  !.target_table = table_name,
                  !.columns = @ \cup { Dotted(table_name, IdentToString(i.columns[k])) :
                                           k \in 1..Len(i.columns) }]

\* The columns one assignment of an UPDATE adds.
AssignmentColumns(table_name, a) ==
    (IF a.value.e = "CompoundIdentifier"
     THEN {Dotted(IdentToString(a.value.idents[1]),
                  IdentToString(a.value.idents[Len(a.value.idents)]))}
     ELSE IF a.value.e = "Identifier"
     THEN {Dotted(table_name, IdentToString(a.value.ident))}
     ELSE {})
    \cup
    (IF a.target.target = "ColumnName"
     THEN IF Len(a.target.name) = 1
          THEN {Dotted(table_name, IdentToString(a.target.name[1]))}
          ELSE {join(a.target.name)}
     ELSE {})

\* The Statement::Update arm.
VisitUpdate(v, u) ==
    LET table_name == TableWithJoinsToString(u.table)
    IN  [v EXCEPT !.query_type = "UPDATE",
                  !.target_table = table_name,
                  !.columns = @ \cup UNION { AssignmentColumns(table_name, u.assignments[k]) :
                                                 k \in 1..Len(u.assignments) },
                  !.tables = @ \cup {table_name}]

\* The Statement::Delete arm.
VisitDelete(v, d) ==
    IF d.from.keyword = "WithFromKeyword"
    THEN [v EXCEPT !.query_type = "DELETE",
                   !.target_table = TableWithJoinsToString(d.from.tables[1]),
                   !.tables = @ \cup { TableWithJoinsToString(d.from.tables[k]) :
                                           k \in 1..Len(d.from.tables) }]
    ELSE [v EXCEPT !.query_type = "DELETE"]

\* fn pre_visit_statement
pre_visit_statement(v, stmt) ==
    IF stmt.stmt = "Query" THEN VisitQuery(v, stmt.query)
    ELSE IF stmt.stmt = "Insert" THEN VisitInsert(v, stmt)
    ELSE IF stmt.stmt = "Update" THEN VisitUpdate(v, stmt)
    ELSE IF stmt.stmt = "Delete" THEN VisitDelete(v, stmt)
    ELSE v

\* fn pre_visit_table_factor
pre_visit_table_factor(v, tf) ==
    IF tf.tf = "Table"
    THEN LET table_name == ObjectNameToString(tf.name)
         IN  [v EXCEPT !.tables = @ \cup {table_name},
                       !.aliases = IF tf.alias = <<>> THEN @
                                   ELSE MapInsert(@, IdentToString(tf.alias[1]), table_name)]
    ELSE v

\* fn pre_visit_relation
pre_visit_relation(v, relation) ==
    [v EXCEPT !.tables = @ \cup {relation[1].value}]

RECURSIVE JoinValues(_)
\* The loop of pre_visit_expr over a compound identifier: every part's
\* value followed by '.', and the last '.' popped.
JoinValues(idents) ==
    IF idents = <<>> THEN <<>>
    ELSE IF Len(idents) = 1 THEN idents[1].value
    ELSE JoinValues(SubSeq(idents, 1, Len(idents) - 1)) \o <<".">> \o idents[Len(idents)].value

\* The aliases known so far replaced while the column is collected.
ResolvedWhenCollected(c, aliases) ==
    IF ContainsDot(c) /\ SplitFirst(c) \in DOMAIN aliases
    THEN Dotted(aliases[SplitFirst(c)], SplitLast(c))
    ELSE c

\* pre_visit_expr with the replacement of aliases interleaved with collection.
pre_visit_expr_resolving(v, expr) ==
    IF expr.e = "Wildcard" THEN [v EXCEPT !.columns = @ \cup {<<"*">>}]
    ELSE IF expr.e = "Identifier" THEN [v EXCEPT !.columns = @ \cup {expr.ident.value}]
    ELSE IF expr.e = "CompoundIdentifier"
    THEN [v EXCEPT !.columns = @ \cup {ResolvedWhenCollected(JoinValues(expr.idents), v.aliases)}]
    ELSE v

\* fn pre_visit_expr
pre_visit_expr(v, expr) ==
    IF expr.e = "Wildcard" THEN [v EXCEPT !.columns = @ \cup {<<"*">>}]
    ELSE IF expr.e = "Identifier" THEN [v EXCEPT !.columns = @ \cup {expr.ident.value}]
    ELSE IF expr.e = "CompoundIdentifier"
    THEN [v EXCEPT !.columns = @ \cup {JoinValues(expr.idents)}]
    ELSE v

----------------------------------------------------------------------------
(* statements.visit(&mut visitor): the callbacks of a pre-order walk *)

Callback(cb, node) == [cb |-> cb, node |-> node]

RECURSIVE WalkExpr(_), WalkExprs(_), WalkTableFactor(_), WalkJoins(_),
          WalkTableWithJoins(_), WalkFrom(_), WalkProjection(_), WalkSelect(_),
          WalkSetExpr(_), WalkQuery(_)

WalkExpr(expr) ==
    <<Callback("expr", expr)>> \o
    (IF expr.e = "BinaryOp" THEN WalkExpr(expr.left) \o WalkExpr(expr.right)
     ELSE IF expr.e = "Exists" THEN WalkQuery(expr.subquery)
     ELSE <<>>)

\* An Option<Expr> or a Vec<Expr>.
WalkExprs(exprs) ==
    IF exprs = <<>> THEN <<>> ELSE WalkExpr(Head(exprs)) \o WalkExprs(Tail(exprs))

\* A table factor is visited first, then its name as a relation; a derived
\* table's subquery is walked after the factor itself.
WalkTableFactor(tf) ==
    <<Callback("table_factor", tf)>> \o
    (IF tf.tf = "Table" THEN <<Callback("relation", tf.name)>>
     ELSE WalkQuery(tf.subquery))

WalkJoins(joins) ==
    IF joins = <<>> THEN <<>>
    ELSE WalkTableFactor(Head(joins).relation) \o WalkJoins(Tail(joins))

WalkTableWithJoins(t) == WalkTableFactor(t.relation) \o WalkJoins(t.joins)

\* A Vec<TableWithJoins> or an Option<TableWithJoins>.
WalkFrom(from) ==
    IF from = <<>> THEN <<>>
    ELSE WalkTableWithJoins(Head(from)) \o WalkFrom(Tail(from))

\* Only the items that hold an expression have anything to visit.
WalkProjection(items) ==
    IF items = <<>> THEN <<>>
    ELSE (IF Head(items).item \in {"UnnamedExpr", "ExprWithAlias"}
          THEN WalkExpr(Head(items).expr) ELSE <<>>)
         \o WalkProjection(Tail(items))

WalkSelect(s) == WalkProjection(s.projection) \o WalkFrom(s.from) \o WalkExprs(s.selection)

WalkSetExpr(b) ==
    IF b.body = "Select" THEN WalkSelect(b.select)
    ELSE WalkSetExpr(b.left) \o WalkSetExpr(b.right)

\* A query that is not itself a statement gets no statement callback.
WalkQuery(q) == WalkSetExpr(q.body)

RECURSIVE WalkAssignments(_)
WalkAssignments(as) ==
    IF as = <<>> THEN <<>> ELSE WalkExpr(Head(as).value) \o WalkAssignments(Tail(as))

RECURSIVE WalkQueries(_)
\* An Option<Box<Query>>.
WalkQueries(qs) ==
    IF qs = <<>> THEN <<>> ELSE WalkQuery(Head(qs)) \o WalkQueries(Tail(qs))

WalkStatement(stmt) ==
    <<Callback("statement", stmt)>> \o
    (IF stmt.stmt = "Query" THEN WalkQuery(stmt.query)
     ELSE IF stmt.stmt = "Insert"
     THEN <<Callback("relation", stmt.table_name)>> \o WalkQueries(stmt.source)
     ELSE IF stmt.stmt = "Update"
     THEN WalkTableWithJoins(stmt.table) \o WalkAssignments(stmt.assignments)
          \o WalkFrom(stmt.from) \o WalkExprs(stmt.selection)
     ELSE IF stmt.stmt = "Delete"
     THEN WalkFrom(stmt.from.tables) \o WalkExprs(stmt.selection)
     ELSE <<>>)

RECURSIVE Walk(_)
\* Vec<Statement>::visit
Walk(statements) ==
    IF statements = <<>> THEN <<>>
    ELSE WalkStatement(Head(statements)) \o Walk(Tail(statements))

----------------------------------------------------------------------------
(* The inputs: what Parser::parse_sql can return *)

MaxCalls == 2
MaxProjection == 2
MaxFrom == 2
MaxStatements == 2
MaxColumns == 2

\* The sequences over S of length lo..hi.
SeqsOf(S, lo, hi) == UNION { [1..n -> S] : n \in lo..hi }

Identifier(v) == [e |-> "Identifier", ident |-> Ident(v)]
CompoundIdentifier(parts) == [e |-> "CompoundIdentifier", idents |-> parts]
WildcardExpr == [e |-> "Wildcard"]
Value == [e |-> "Value"]
BinaryOp(l, r) == [e |-> "BinaryOp", left |-> l, right |-> r]
Exists(q) == [e |-> "Exists", subquery |-> q]

UnnamedExpr(expr) == [item |-> "UnnamedExpr", expr |-> expr]
ExprWithAlias(expr, alias) == [item |-> "ExprWithAlias", expr |-> expr, alias |-> alias]
WildcardItem == [item |-> "Wildcard"]
QualifiedWildcard(name) == [item |-> "QualifiedWildcard", name |-> name]

Table(name, alias) == [tf |-> "Table", name |-> name, alias |-> alias]
Derived(q) == [tf |-> "Derived", subquery |-> q]
TableWithJoins(relation, joins) == [relation |-> relation, joins |-> joins]
Plain(tf) == TableWithJoins(tf, <<>>)

Select(projection, from, selection) ==
    [projection |-> projection, from |-> from, selection |-> selection]
SelectBody(s) == [body |-> "Select", select |-> s]
SetOperation(l, r) == [body |-> "SetOperation", left |-> l, right |-> r]
Query(body) == [body |-> body]

QueryStatement(q) == [stmt |-> "Query", query |-> q]
InsertStatement(table_name, cols, source) ==
    [stmt |-> "Insert", table_name |-> table_name, columns |-> cols, source |-> source]
UpdateStatement(table, assignments, from, selection) ==
    [stmt |-> "Update", table |-> table, assignments |-> assignments,
     from |-> from, selection |-> selection]
DeleteStatement(keyword, tables, selection) ==
    [stmt |-> "Delete", from |-> [keyword |-> keyword, tables |-> tables],
     selection |-> selection]
OtherStatement == [stmt |-> "Other"]

Parsed(statements) == [parses |-> TRUE, statements |-> statements]
ParseError == [parses |-> FALSE, statements |-> <<>>]

\* SELECT * FROM u   and   SELECT * FROM t UNION SELECT * FROM u
StarFrom(t) == Select(<<WildcardItem>>, <<Plain(Table(<<Ident(t)>>, <<>>))>>, <<>>)
StarUnion == SetOperation(SelectBody(StarFrom("t")), SelectBody(StarFrom("u")))

\* SELECT <1..MaxProjection of a.c, t.c, u.c, "a"."c"> FROM <1..MaxFrom of
\* t AS a, u AS a, t AS u, t AS "a">
AliasItems ==
    { UnnamedExpr(CompoundIdentifier(<<Ident("a"), Ident("c")>>)),
      UnnamedExpr(CompoundIdentifier(<<Ident("t"), Ident("c")>>)),
      UnnamedExpr(CompoundIdentifier(<<Ident("u"), Ident("c")>>)),
      UnnamedExpr(CompoundIdentifier(<<Quoted("a"), Quoted("c")>>)) }

AliasTables ==
    { Plain(Table(<<Ident("t")>>, <<Ident("a")>>)),
      Plain(Table(<<Ident("u")>>, <<Ident("a")>>)),
      Plain(Table(<<Ident("t")>>, <<Ident("u")>>)),
      Plain(Table(<<Ident("t")>>, <<Quoted("a")>>)) }

AliasInputs ==
    { Parsed(<<QueryStatement(Query(SelectBody(Select(p, f, <<>>))))>>) :
        p \in SeqsOf(AliasItems, 1, MaxProjection), f \in SeqsOf(AliasTables, 1, MaxFrom) }

\* SELECT <1..MaxProjection of c AS d, a.c AS d, d> FROM <t, t AS a> [WHERE d = ..]
ProjectionAliasItems ==
    { ExprWithAlias(Identifier("c"), Ident("d")),
      ExprWithAlias(CompoundIdentifier(<<Ident("a"), Ident("c")>>), Ident("d")),
      UnnamedExpr(Identifier("d")) }

ProjectionAliasInputs ==
    { Parsed(<<QueryStatement(Query(SelectBody(Select(p, <<f>>, w))))>>) :
        p \in SeqsOf(ProjectionAliasItems, 1, MaxProjection),
        f \in { Plain(Table(<<Ident("t")>>, <<>>)), Plain(Table(<<Ident("t")>>, <<Ident("a")>>)) },
        w \in { <<>>, <<BinaryOp(Identifier("d"), Value)>> } }

\* Queries with wildcards at the top level, in a derived table, under a set
\* operation and in an EXISTS subquery.
WildcardItems ==
    { WildcardItem, QualifiedWildcard(<<Ident("t")>>), UnnamedExpr(Identifier("c")) }

WildcardFroms ==
    { <<Plain(Table(<<Ident("t")>>, <<>>))>>,
      <<Plain(Derived(Query(SelectBody(StarFrom("u")))))>>,
      <<Plain(Derived(Query(StarUnion)))>> }

WildcardSelections ==
    { <<>>,
      <<Exists(Query(SelectBody(StarFrom("u"))))>>,
      <<BinaryOp(Identifier("d"), Value)>>,
      <<BinaryOp(WildcardExpr, Value)>> }

WildcardSelects ==
    { Select(p, f, w) : p \in SeqsOf(WildcardItems, 1, MaxProjection),
                        f \in WildcardFroms, w \in WildcardSelections }

WildcardInputs ==
    { Parsed(<<QueryStatement(Query(SelectBody(s)))>>) : s \in WildcardSelects }
    \cup
    { Parsed(<<QueryStatement(Query(SetOperation(SelectBody(s), SelectBody(StarFrom("u")))))>>) :
        s \in WildcardSelects }

\* INSERT INTO <t, s.t, "t"> (<0..MaxColumns of c, d>) <VALUES .. or a SELECT>
InsertSources ==
    { <<>>,
      <<Query(SelectBody(Select(<<UnnamedExpr(Identifier("c"))>>,
                                <<Plain(Table(<<Ident("u")>>, <<Ident("t")>>))>>, <<>>)))>>,
      <<Query(SelectBody(Select(<<UnnamedExpr(CompoundIdentifier(<<Ident("a"), Ident("d")>>))>>,
                                <<Plain(Table(<<Ident("u")>>, <<Ident("a")>>))>>, <<>>)))>>,
      <<Query(SelectBody(Select(<<UnnamedExpr(CompoundIdentifier(<<Ident("t"), Ident("c")>>))>>,
                                <<Plain(Table(<<Ident("u")>>, <<Ident("s")>>))>>, <<>>)))>> }

InsertInputs ==
    { Parsed(<<InsertStatement(n, c, q)>>) :
        n \in { <<Ident("t")>>, <<Ident("s"), Ident("t")>>, <<Quoted("t")>> },
        c \in SeqsOf({Ident("c"), Ident("d")}, 0, MaxColumns),
        q \in InsertSources }

\* UPDATE <t, t AS a> SET <one assignment> [FROM u AS a] [WHERE a.c]
Assignments ==
    { [target |-> [target |-> "ColumnName", name |-> <<Ident("c")>>], value |-> Value],
      [target |-> [target |-> "ColumnName", name |-> <<Ident("c")>>], value |-> Identifier("d")],
      [target |-> [target |-> "ColumnName", name |-> <<Ident("a"), Ident("c")>>],
       value |-> CompoundIdentifier(<<Ident("s"), Ident("u"), Ident("d")>>)],
      [target |-> [target |-> "Tuple", name |-> <<>>], value |-> Value] }

UpdateInputs ==
    { Parsed(<<UpdateStatement(t, <<a>>, f, w)>>) :
        t \in { Plain(Table(<<Ident("t")>>, <<>>)), Plain(Table(<<Ident("t")>>, <<Ident("a")>>)) },
        a \in Assignments,
        f \in { <<>>, <<Plain(Table(<<Ident("u")>>, <<Ident("a")>>))>> },
        w \in { <<>>, <<CompoundIdentifier(<<Ident("a"), Ident("c")>>)>> } }

\* DELETE FROM <1..MaxFrom of t, t AS a, u, s.t, t JOIN u> [WHERE ..]
DeleteTables ==
    { Plain(Table(<<Ident("t")>>, <<>>)),
      Plain(Table(<<Ident("t")>>, <<Ident("a")>>)),
      Plain(Table(<<Ident("u")>>, <<>>)),
      Plain(Table(<<Ident("s"), Ident("t")>>, <<>>)),
      TableWithJoins(Table(<<Ident("t")>>, <<>>), <<[relation |-> Table(<<Ident("u")>>, <<>>)]>>) }

DeleteInputs ==
    { Parsed(<<DeleteStatement("WithFromKeyword", f, w)>>) :
        f \in SeqsOf(DeleteTables, 1, MaxFrom),
        w \in { <<>>, <<BinaryOp(Identifier("c"), Value)>>,
                <<BinaryOp(CompoundIdentifier(<<Ident("a"), Ident("c")>>), Value)>> } }

\* 1..MaxStatements statements separated by ';'
ShortStatements ==
    { QueryStatement(Query(SelectBody(Select(<<UnnamedExpr(Identifier("c"))>>,
                                             <<Plain(Table(<<Ident("t")>>, <<>>))>>, <<>>)))),
      InsertStatement(<<Ident("t")>>, <<Ident("c")>>, <<>>),
      UpdateStatement(Plain(Table(<<Ident("u")>>, <<>>)),
                      <<[target |-> [target |-> "ColumnName", name |-> <<Ident("c")>>],
                         value |-> Value]>>, <<>>, <<>>),
      DeleteStatement("WithFromKeyword", <<Plain(Table(<<Ident("t")>>, <<>>))>>, <<>>),
      DeleteStatement("WithoutKeyword", <<Plain(Table(<<Ident("t")>>, <<>>))>>, <<>>),
      OtherStatement }

StatementListInputs ==
    { Parsed(l) : l \in SeqsOf(ShortStatements, 1, MaxStatements) }

\* SELECT <1..MaxProjection of a.c, t.c, u.c> FROM <1..MaxFrom of t AS a, u AS a,
\* t AS u>: the references whose order of discovery is varied.
OrderItems ==
    { UnnamedExpr(CompoundIdentifier(<<Ident("a"), Ident("c")>>)),
      UnnamedExpr(CompoundIdentifier(<<Ident("t"), Ident("c")>>)),
      UnnamedExpr(CompoundIdentifier(<<Ident("u"), Ident("c")>>)) }

OrderTables ==
    { Plain(Table(<<Ident("t")>>, <<Ident("a")>>)),
      Plain(Table(<<Ident("u")>>, <<Ident("a")>>)),
      Plain(Table(<<Ident("t")>>, <<Ident("u")>>)) }

OrderInputs ==
    { Parsed(<<QueryStatement(Query(SelectBody(Select(p, f, <<>>))))>>) :
        p \in SeqsOf(OrderItems, 1, MaxProjection), f \in SeqsOf(OrderTables, 1, MaxFrom) }

Inputs ==
    {ParseError} \cup AliasInputs \cup ProjectionAliasInputs \cup WildcardInputs
    \cup InsertInputs
    \cup UpdateInputs \cup DeleteInputs \cup StatementListInputs

----------------------------------------------------------------------------
(* fn inspect *)

\* The body of the loop that replaces an alias by the table it stands for.
ResolveAlias(c, aliases) ==
    IF ~ContainsDot(c) THEN c
    ELSE IF SplitFirst(c) \in DOMAIN aliases
    THEN Dotted(aliases[SplitFirst(c)], SplitLast(c))
    ELSE c

\* for c in columns.iter_mut() { ... }
ResolveAliases(cols, aliases) ==
    [i \in 1..Len(cols) |-> ResolveAlias(cols[i], aliases)]

\* The columns sorted before the aliases are replaced.
ResultColumnsSortedFirst(cols, aliases) == ResolveAliases(Sort(cols), aliases)

\* The columns left in the order the set yielded them.
ResultColumnsUnsorted(cols, aliases) == ResolveAliases(cols, aliases)

\* The columns of the result: the collected strings in the order the set
\* yielded them, rewritten, then sorted.
ResultColumns(cols, aliases) == Sort(ResolveAliases(cols, aliases))

\* The tables of the result.
ResultTables(tabs) == Sort(tabs)

\* What a call has produced before it ends.
NoResult ==
    [outcome |-> "none", columns |-> <<>>, tables |-> <<>>,
     target_table |-> <<>>, query_type |-> "SELECT"]

\* Parser::parse_sql(..).unwrap() on an Err: the call panics.
ParseFailureResult == [NoResult EXCEPT !.outcome = "panic"]

\* ExtractResult { columns, tables, target_table, query_type }
ExtractResult(v, cols, tabs) ==
    [outcome |-> "ok",
     columns |-> ResultColumns(cols, v.aliases),
     tables |-> ResultTables(tabs),
     target_table |-> v.target_table,
     query_type |-> v.query_type]

\* let statements = Parser::parse_sql(&GenericDialect {}, sql).unwrap();
\* let mut visitor = V::default();
Parse ==
    /\ pc = "start"
    /\ IF sql.parses
       THEN /\ pc' = "visit"
            /\ todo' = Walk(sql.statements)
            /\ result' = result
       ELSE /\ pc' = "panicked"
            /\ todo' = <<>>
            /\ result' = ParseFailureResult
    /\ visitor' = DefaultV
    /\ UNCHANGED <<sql, calls, previous>>

\* The walk reaches a statement.
VisitStatement ==
    /\ pc = "visit" /\ todo # <<>> /\ Head(todo).cb = "statement"
    /\ visitor' = pre_visit_statement(visitor, Head(todo).node)
    /\ todo' = Tail(todo)
    /\ UNCHANGED <<sql, pc, result, calls, previous>>

\* The walk reaches a table factor.
VisitTableFactor ==
    /\ pc = "visit" /\ todo # <<>> /\ Head(todo).cb = "table_factor"
    /\ visitor' = pre_visit_table_factor(visitor, Head(todo).node)
    /\ todo' = Tail(todo)
    /\ UNCHANGED <<sql, pc, result, calls, previous>>

\* The walk reaches an object name marked as a relation.
VisitRelation ==
    /\ pc = "visit" /\ todo # <<>> /\ Head(todo).cb = "relation"
    /\ visitor' = pre_visit_relation(visitor, Head(todo).node)
    /\ todo' = Tail(todo)
    /\ UNCHANGED <<sql, pc, result, calls, previous>>

\* The walk reaches an expression.
VisitExpr ==
    /\ pc = "visit" /\ todo # <<>> /\ Head(todo).cb = "expr"
    /\ visitor' = pre_visit_expr(visitor, Head(todo).node)
    /\ todo' = Tail(todo)
    /\ UNCHANGED <<sql, pc, result, calls, previous>>

\* The rest of inspect() once the walk is over.  The two sets are read in
\* whatever order their iterators yield.
Finish ==
    /\ pc = "visit" /\ todo = <<>>
    /\ \E cols \in IterationOrders(visitor.columns) :
       \E tabs \in IterationOrders(visitor.tables) :
           result' = ExtractResult(visitor, cols, tabs)
    /\ pc' = "done"
    /\ UNCHANGED <<sql, todo, visitor, calls, previous>>

\* The caller calls inspect() once more on the same text.
CallAgain ==
    /\ pc \in {"done", "panicked"}
    /\ calls < MaxCalls
    /\ calls' = calls + 1
    /\ previous' = result
    /\ pc' = "start"
    /\ todo' = <<>>
    /\ visitor' = DefaultV
    /\ result' = NoResult
    /\ UNCHANGED sql

Init ==
    /\ sql \in Inputs
    /\ pc = "start"
    /\ todo = <<>>
    /\ visitor = DefaultV
    /\ result = NoResult
    /\ calls = 1
    /\ previous = NoResult

Next ==
    \/ Parse
    \/ VisitStatement
    \/ VisitTableFactor
    \/ VisitRelation
    \/ VisitExpr
    \/ Finish
    \/ CallAgain

Spec == Init /\ [][Next]_vars

----------------------------------------------------------------------------
(* The same references discovered in another order *)

\* The callback made on a node.
ApplyCallback(v, c) ==
    IF c.cb = "statement" THEN pre_visit_statement(v, c.node)
    ELSE IF c.cb = "table_factor" THEN pre_visit_table_factor(v, c.node)
    ELSE IF c.cb = "relation" THEN pre_visit_relation(v, c.node)
    ELSE pre_visit_expr(v, c.node)

\* The callbacks a reference takes: a table's factor with its name, or an
\* expression.
ReferenceLength(c) == IF c.cb = "table_factor" /\ c.node.tf = "Table" THEN 2 ELSE 1

\* After its statement, the walk reaches any of the column and table
\* references still to come: the reference at place i of todo is visited.
VisitInAnyOrder ==
    /\ pc = "visit" /\ todo # <<>> /\ Head(todo).cb # "statement"
    /\ \E i \in 1..Len(todo) :
           /\ todo[i].cb \in {"table_factor", "expr"}
           /\ LET n == ReferenceLength(todo[i])
                  first == ApplyCallback(visitor, todo[i])
              IN  /\ visitor' = IF n = 2 THEN ApplyCallback(first, todo[i + 1]) ELSE first
                  /\ todo' = SubSeq(todo, 1, i - 1) \o SubSeq(todo, i + n, Len(todo))
    /\ UNCHANGED <<sql, pc, result, calls, previous>>

InitAnyOrder ==
    /\ sql \in OrderInputs
    /\ pc = "start"
    /\ todo = <<>>
    /\ visitor = DefaultV
    /\ result = NoResult
    /\ calls = 1
    /\ previous = NoResult

NextAnyOrder ==
    \/ Parse
    \/ VisitStatement
    \/ VisitInAnyOrder
    \/ Finish
    \/ CallAgain

\* Two or more walks over the same references, each in an order of its own.
SpecAnyOrder == InitAnyOrder /\ [][NextAnyOrder]_vars

----------------------------------------------------------------------------
(* Properties *)

Ended == pc \in {"done", "panicked"}

\* The callbacks the walk makes on the input of the call.
Callbacks == Walk(sql.statements)

NoRepeats(s) == \A i, j \in 1..Len(s) : s[i] = s[j] => i = j

Ascending(s) == \A i, j \in 1..Len(s) : i < j => StrLeq(s[i], s[j])

Occurrences(s, x) == Cardinality({ i \in 1..Len(s) : s[i] = x })

\* c has the form "p.col".
HasPrefix(c, p) == ContainsDot(c) /\ SplitFirst(c) = p

\* The (alias, table) pairs of the table references of the input.
AliasBindings ==
    { [alias |-> Callbacks[i].node.alias[1].value,
       table |-> ObjectNameToString(Callbacks[i].node.name)] :
        i \in { k \in 1..Len(Callbacks) :
                  /\ Callbacks[k].cb = "table_factor"
                  /\ Callbacks[k].node.tf = "Table"
                  /\ Callbacks[k].node.alias # <<>> } }

\* The names of the tables in FROM/JOIN position of the input.
ReferencedTableNames ==
    { ObjectNameToString(Callbacks[i].node.name) :
        i \in { k \in 1..Len(Callbacks) :
                  Callbacks[k].cb = "table_factor" /\ Callbacks[k].node.tf = "Table" } }

\* The input is one statement of the given kind.
OneStatement(kind) ==
    sql.parses /\ Len(sql.statements) = 1 /\ sql.statements[1].stmt = kind

\* C1: the tables and the columns of a result hold no entry twice.
C1_NoRepeatedEntries ==
    pc = "done" => NoRepeats(result.tables) /\ NoRepeats(result.columns)

\* C2: when table T is referenced with alias A, no column of the result has
\* the form "A.col", and every column collected as "A.col" is in the result
\* as "T.col".
C2_AliasesSubstituted ==
    pc = "done" =>
        \A b \in AliasBindings :
            /\ \A i \in 1..Len(result.columns) : ~HasPrefix(result.columns[i], b.alias)
            /\ \A c \in visitor.columns :
                   HasPrefix(c, b.alias) =>
                       Dotted(b.table, SplitLast(c)) \in Range(result.columns)

\* C3: a text that does not parse ends the call in an error value returned
\* to the caller, with no result, and without a panic.
C3_ParseFailureIsAnError ==
    (Ended /\ ~sql.parses) => (pc = "done" /\ result.outcome = "error")

\* C4: a SELECT result has an empty target table; an INSERT, an UPDATE, or a
\* DELETE with a FROM list has a target table.
C4_TargetTablePresence ==
    pc = "done" =>
        /\ result.query_type = "SELECT" => result.target_table = <<>>
        /\ LET last == sql.statements[Len(sql.statements)]
           IN  (\/ last.stmt \in {"Insert", "Update"}
                \/ (last.stmt = "Delete" /\ last.from.keyword = "WithFromKeyword"))
               => result.target_table # <<>>

RECURSIVE SelectsOfExpr(_), SelectsOfExprs(_), SelectsOfFactor(_), SelectsOfFrom(_),
          SelectsOfSetExpr(_)

\* The SELECT bodies in an expression, a table reference, a query body.
SelectsOfExpr(expr) ==
    IF expr.e = "BinaryOp" THEN SelectsOfExpr(expr.left) \cup SelectsOfExpr(expr.right)
    ELSE IF expr.e = "Exists" THEN SelectsOfSetExpr(expr.subquery.body)
    ELSE {}

SelectsOfExprs(exprs) == UNION { SelectsOfExpr(exprs[i]) : i \in 1..Len(exprs) }

SelectsOfFactor(tf) == IF tf.tf = "Derived" THEN SelectsOfSetExpr(tf.subquery.body) ELSE {}

SelectsOfFrom(from) ==
    UNION { SelectsOfFactor(from[i].relation)
            \cup UNION { SelectsOfFactor(from[i].joins[j].relation) :
                           j \in 1..Len(from[i].joins) } : i \in 1..Len(from) }

SelectsOfSetExpr(b) ==
    IF b.body = "Select"
    THEN {b.select} \cup SelectsOfFrom(b.select.from) \cup SelectsOfExprs(b.select.selection)
    ELSE SelectsOfSetExpr(b.left) \cup SelectsOfSetExpr(b.right)

\* Every SELECT body of a statement, nested ones included.
SelectsOfStatement(stmt) ==
    IF stmt.stmt = "Query" THEN SelectsOfSetExpr(stmt.query.body)
    ELSE IF stmt.stmt = "Insert"
    THEN UNION { SelectsOfSetExpr(stmt.source[i].body) : i \in 1..Len(stmt.source) }
    ELSE IF stmt.stmt = "Update"
    THEN SelectsOfFrom(<<stmt.table>>) \cup SelectsOfFrom(stmt.from)
         \cup SelectsOfExprs(stmt.selection)
    ELSE IF stmt.stmt = "Delete"
    THEN SelectsOfFrom(stmt.from.tables) \cup SelectsOfExprs(stmt.selection)
    ELSE {}

WildcardProjections(select) ==
    { i \in 1..Len(select.projection) : select.projection[i].item = "Wildcard" }

\* Some SELECT body of the input, at any depth, projects a wildcard.
SomeWildcardProjection ==
    \E k \in 1..Len(sql.statements) :
        \E s \in SelectsOfStatement(sql.statements[k]) : WildcardProjections(s) # {}

\* A statement of the input is a query whose body is a SELECT.
TopLevelSelect(k) ==
    sql.statements[k].stmt = "Query" /\ sql.statements[k].query.body.body = "Select"

\* The SELECT body of a query statement of the input projects a wildcard.
TopLevelWildcardProjection ==
    \E k \in 1..Len(sql.statements) :
        TopLevelSelect(k) /\ WildcardProjections(sql.statements[k].query.body.select) # {}

\* The walk meets a wildcard expression.
WildcardExprVisited ==
    \E i \in 1..Len(Callbacks) : Callbacks[i].cb = "expr" /\ Callbacks[i].node.e = "Wildcard"

\* C5, as claimed: the wildcard projections of the input, wherever they
\* are, put exactly one "*" in the columns of the result.
C5_AnyWildcardGivesOneStar ==
    (pc = "done" /\ SomeWildcardProjection) => Occurrences(result.columns, <<"*">>) = 1

\* C5, amended: the wildcard projections of the SELECT body of a query
\* statement put exactly one "*" in the columns of the result, however many
\* they are; wildcard projections in nested subqueries, set operations and
\* EXISTS subqueries put none there.
C5_TopLevelWildcardsGiveOneStar ==
    pc = "done" =>
        Occurrences(result.columns, <<"*">>) =
            IF TopLevelWildcardProjection \/ WildcardExprVisited THEN 1 ELSE 0

\* C5: a query with two wildcard projections at the top level and a
\* wildcard in a nested SELECT has ended with one "*".
C5_Witness ==
    /\ pc = "done"
    /\ TopLevelSelect(1)
    /\ Cardinality(WildcardProjections(sql.statements[1].query.body.select)) >= 2
    /\ Cardinality(SelectsOfStatement(sql.statements[1])) >= 2
    /\ Occurrences(result.columns, <<"*">>) = 1

\* C6: the tables and the columns of a result ascend in the order of their
\* strings, the columns as they are after the aliases are replaced.
C6_ResultSorted ==
    pc = "done" => Ascending(result.tables) /\ Ascending(result.columns)

\* C6: a result with columns whose order changed when an alias was replaced.
C6_Witness ==
    /\ pc = "done"
    /\ Len(result.tables) >= 2
    /\ \E c, d \in visitor.columns :
           /\ StrLess(c, d)
           /\ StrLess(ResolveAlias(d, visitor.aliases), ResolveAlias(c, visitor.aliases))

\* C7: a call of inspect on a text ends as the call before it on the same
\* text ended, whatever order the sets were read in.
C7_Deterministic ==
    (Ended /\ calls >= 2) => result = previous

\* C7: a second call has ended with a result of several columns and tables.
C7_Witness ==
    /\ pc = "done" /\ calls >= 2
    /\ Cardinality(visitor.columns) >= 2
    /\ Cardinality(visitor.tables) >= 2
    /\ result = previous

\* C8: for a DELETE with a FROM list the target table is the name of the
\* first listed table, every listed table's name is among the tables, and
\* the tables are names of tables only.
C8_DeleteTables ==
    (pc = "done" /\ OneStatement("Delete")
        /\ sql.statements[1].from.keyword = "WithFromKeyword") =>
        LET listed == sql.statements[1].from.tables
        IN  /\ result.target_table = ObjectNameToString(listed[1].relation.name)
            /\ \A k \in 1..Len(listed) :
                   ObjectNameToString(listed[k].relation.name) \in Range(result.tables)
            /\ Range(result.tables) \subseteq ReferencedTableNames

\* C9: for an INSERT with a column list the result holds "<table>.<c>" for
\* every listed column c, <table> being the table inserted into.
C9_InsertColumnsQualified ==
    (pc = "done" /\ OneStatement("Insert")) =>
        LET i == sql.statements[1]
        IN  \A k \in 1..Len(i.columns) :
                Dotted(ObjectNameToString(i.table_name), IdentToString(i.columns[k]))
                    \in Range(result.columns)

\* The aliased items of the projection of a query statement's SELECT body.
AliasedItems(k) ==
    { sql.statements[k].query.body.select.projection[i] :
        i \in { j \in 1..Len(sql.statements[k].query.body.select.projection) :
                  sql.statements[k].query.body.select.projection[j].item = "ExprWithAlias" } }

\* The walk meets an identifier expression named v.
IdentifierVisited(v) ==
    \E i \in 1..Len(Callbacks) :
        /\ Callbacks[i].cb = "expr"
        /\ Callbacks[i].node.e = "Identifier"
        /\ Callbacks[i].node.ident.value = v

\* C10, as claimed: of an aliased projection item the expression is
\* recorded, and the alias is in no column of the result.
C10_AliasNeverAColumn ==
    pc = "done" =>
        \A k \in { n \in 1..Len(sql.statements) : TopLevelSelect(n) } :
            \A item \in AliasedItems(k) :
                /\ ProjectionExprColumns(item.expr) \subseteq visitor.columns
                /\ item.alias.value \notin Range(result.columns)

\* C10, amended: of an aliased projection item the expression is recorded
\* and the alias is not; the alias's name is a column of the result only
\* when an identifier expression of the input has that name.
C10_AliasDiscarded ==
    pc = "done" =>
        \A k \in { n \in 1..Len(sql.statements) : TopLevelSelect(n) } :
            \A item \in AliasedItems(k) :
                /\ ProjectionExprColumns(item.expr) \subseteq visitor.columns
                /\ item.alias.value \in Range(result.columns)
                       => IdentifierVisited(item.alias.value)

\* C10: SELECT c AS d .. has ended with c among the columns and d not.
C10_Witness ==
    /\ pc = "done"
    /\ TopLevelSelect(1)
    /\ \E item \in AliasedItems(1) :
           /\ item.expr.e = "Identifier"
           /\ item.expr.ident.value \in Range(result.columns)
           /\ item.alias.value \notin Range(result.columns)

\* The (key of the alias map, table) pairs of the table references of the input.
AliasKeys ==
    { [key |-> IdentToString(Callbacks[i].node.alias[1]),
       table |-> ObjectNameToString(Callbacks[i].node.name)] :
        i \in { k \in 1..Len(Callbacks) :
                  /\ Callbacks[k].cb = "table_factor"
                  /\ Callbacks[k].node.tf = "Table"
                  /\ Callbacks[k].node.alias # <<>> } }

\* No alias of the input is bound to two tables.
EachAliasBoundOnce == \A b, d \in AliasKeys : b.key = d.key => b.table = d.table

\* C11, as claimed: whatever order the references of a statement are
\* discovered in, an alias bound to several tables included, the columns of
\* the result are the same.
C11_ColumnsIndependentOfOrder ==
    (pc = "done" /\ calls >= 2) => result.columns = previous.columns

\* C11, amended: when no alias is bound to more than one table, the columns
\* of the result are the same whatever order the references of the
\* statement are discovered in.
C11_ColumnsIndependentOfOrderOfUniqueAliases ==
    (pc = "done" /\ calls >= 2 /\ EachAliasBoundOnce) => result.columns = previous.columns

\* C11: a second walk over two aliased tables, one alias naming the other
\* table, has ended with a replaced column and the columns of the first walk.
C11_Witness ==
    /\ pc = "done" /\ calls >= 2
    /\ EachAliasBoundOnce
    /\ Cardinality(AliasKeys) >= 2
    /\ \E c \in visitor.columns : ResolveAlias(c, visitor.aliases) # c
    /\ result.columns = previous.columns

====
